---- MODULE Spec2Model ----
(***************************************************************************)
(* Model of the pitch tracking session of src/src/App.tsx: the React state *)
(* of the App component, its refs, the pending getUserMedia promises, the  *)
(* callbacks registered with requestAnimationFrame, and the handlers that  *)
(* change them.                                                            *)
(*                                                                         *)
(* Closures.  startListening and its inner updatePitch read cancelNoise    *)
(* and smoothness from the render in which the Start button was clicked;   *)
(* a pending start and a scheduled updatePitch therefore carry the values  *)
(* they captured.                                                          *)
(*                                                                         *)
(* Scheduling.  All callbacks registered with requestAnimationFrame run in *)
(* registration order in the next animation frame, and a callback that     *)
(* registers itself again runs in the frame after.  rafQueue holds the     *)
(* callbacks registered for the next frame, frame the callbacks of the     *)
(* frame being run.  Event handlers and promise continuations run between  *)
(* frames.                                                                 *)
(*                                                                         *)
(* lastTick records the estimate of the run of updatePitch in the latest   *)
(* step and what the run did with it ("none" when the latest step ran no   *)
(* updatePitch).                                                           *)
(*                                                                         *)
(* Numbers.  Frequencies and spectrum magnitudes are integers; the average *)
(* of line 111 is rounded down to an integer.                              *)
(***************************************************************************)
EXTENDS Integers, Sequences, FiniteSets, TLC

\* ---- bounds of the model ------------------------------------------------
\* pitchData keeps the last HistoryCapacity entries (100 in the source).
HistoryCapacity == 3
\* callbacks per second assumed by calibrateNoise (60 in the source).
FramesPerSecond == 2
\* analyserRef.current.frequencyBinCount (1024 in the source).
NumBins == 1
\* largest value of the smoothness slider (10 in the source).
MaxSmoothness == 1
\* media streams obtained from getUserMedia over the model's run.
MaxStreams == 2
\* startListening calls waiting for getUserMedia at the same time.
MaxPendingStarts == 2
\* calibrateNoise loops scheduled at the same time.
MaxCalibrations == 2

\* ---- program constants ---------------------------------------------------
calibrationTime == 1

NOTES == <<"C", "C#", "D", "D#", "E", "F", "F#", "G", "G#", "A", "A#", "B">>

\* ---- values --------------------------------------------------------------
\* findPitch results: null, NaN, or a number (0 is what pitchy returns when
\* it finds no pitch).
NullPitch == -1
NaNPitch == -2
PitchValues == {0, 1, 2}
Estimates == {NullPitch, NaNPitch} \cup PitchValues

\* magnitudes getFloatFrequencyData can deliver in one bin
Levels == {1, 2}
SpectrumFrames == [1..NumBins -> Levels]

\* noiseProfileRef.current: null, or a Float32Array of NumBins values
NullProfile == <<>>
ZeroProfile == [i \in 1..NumBins |-> 0]

\* rafIdRef.current: null, or the id returned for the latest callback of an
\* updatePitch loop, named by the loop (the number of the start that made
\* it); the ids of a cancelled loop are never scheduled again.
NullId == 0
\* audioContextRef.current: null, or the context made by the n-th start
NullContext == 0

VARIABLES
  isListening, pitchData, currentNote, cancelNoise, isCalibrating, smoothness,
  audioContextRef, rafIdRef, noiseFloorRef, noiseProfileRef,
  pending, rafQueue, frame, streams, contexts, sources, lastTick

vars == <<isListening, pitchData, currentNote, cancelNoise, isCalibrating,
          smoothness, audioContextRef, rafIdRef, noiseFloorRef,
          noiseProfileRef, pending, rafQueue, frame, streams, contexts,
          sources, lastTick>>

\* ---- arithmetic ----------------------------------------------------------
Max(a, b) == IF a >= b THEN a ELSE b
Min(a, b) == IF a <= b THEN a ELSE b

RECURSIVE Sum(_)
Sum(s) == IF s = <<>> THEN 0 ELSE Head(s) + Sum(Tail(s))

RECURSIVE MaxOf(_)
\* Math.max(...array) of a non-empty array
MaxOf(s) == IF Len(s) = 1 THEN s[1] ELSE Max(Head(s), MaxOf(Tail(s)))

\* Math.log2(f / 440) in millionths for f = 1 .. 128 Hz
LowLog2 ==
  << -8781360, -7781360, -7196397, -6781360, -6459432, -6196397, -5974005, -5781360,
     -5611435, -5459432, -5321928, -5196397, -5080920, -4974005, -4874469, -4781360,
     -4693897, -4611435, -4533432, -4459432, -4389042, -4321928, -4257798, -4196397,
     -4137504, -4080920, -4026472, -3974005, -3923379, -3874469, -3827163, -3781360,
     -3736966, -3693897, -3652077, -3611435, -3571906, -3533432, -3495957, -3459432,
     -3423808, -3389042, -3355095, -3321928, -3289507, -3257798, -3226771, -3196397,
     -3166650, -3137504, -3108934, -3080920, -3053439, -3026472, -3000000, -2974005,
     -2948470, -2923379, -2898717, -2874469, -2850622, -2827163, -2804080, -2781360,
     -2758992, -2736966, -2715271, -2693897, -2672835, -2652077, -2631613, -2611435,
     -2591535, -2571906, -2552541, -2533432, -2514573, -2495957, -2477579, -2459432,
     -2441510, -2423808, -2406320, -2389042, -2371969, -2355095, -2338416, -2321928,
     -2305626, -2289507, -2273565, -2257798, -2242201, -2226771, -2211504, -2196397,
     -2181447, -2166650, -2152003, -2137504, -2123148, -2108934, -2094859, -2080920,
     -2067114, -2053439, -2039893, -2026472, -2013175, -2000000, -1986944, -1974005,
     -1961181, -1948470, -1935870, -1923379, -1910995, -1898717, -1886542, -1874469,
     -1862496, -1850622, -1838845, -1827163, -1815575, -1804080, -1792675, -1781360 >>

\* the frequencies getNote is evaluated on: the low ones and some notes of the
\* octaves around 440 Hz
Frequencies ==
  (1..Len(LowLog2)) \cup {220, 247, 262, 330, 392, 415, 440, 466, 494, 523, 880}

\* Math.log2(frequency / 440) in millionths, for the frequencies used
Log2Of440 ==
  [f \in Frequencies |->
     IF f <= Len(LowLog2)
     THEN LowLog2[f]
     ELSE CASE f = 220 -> -1000000
            [] f = 247 -> -832992
            [] f = 262 -> -747937
            [] f = 330 -> -415037
            [] f = 392 -> -166650
            [] f = 415 -> -84392
            [] f = 440 -> 0
            [] f = 466 -> 82826
            [] f = 494 -> 167008
            [] f = 523 -> 249307
            [] f = 880 -> 1000000]

\* the remainder operator of JavaScript: the sign of the dividend
JsRem(a, b) == IF a >= 0 THEN a % b ELSE 0 - ((0 - a) % b)

getNote(frequency) ==
  IF frequency = 0
  THEN "undefined-Infinity"
  ELSE LET noteNum == 12 * (Log2Of440[frequency] + 4000000)
           noteIndex == JsRem((noteNum + 500000) \div 1000000, 12)
           octave == noteNum \div 12000000
           name == IF noteIndex \in 0..11 THEN NOTES[noteIndex + 1]
                   ELSE "undefined"
       IN  name \o ToString(octave)

\* ---- the history ---------------------------------------------------------
\* lines 106-113 with i + smoothness in the place of i + smoothness + 1 at
\* line 109: the window misses its last position
Smooth_ShortWindow(newData, r) ==
  [i \in 1..Len(newData) |->
     LET start == Max(1, i - r)
         end == Min(Len(newData), i + r - 1)
         slice == SubSeq(newData, start, end)
     IN  Sum(slice) \div Len(slice)]

\* lines 106-113: the centered moving average over newData
Smooth(newData, r) ==
  [i \in 1..Len(newData) |->
     LET start == Max(1, i - r)
         end == Min(Len(newData), i + r)
         slice == SubSeq(newData, start, end)
     IN  Sum(slice) \div Len(slice)]

\* array.slice(0, n) in the place of array.slice(-n): the oldest entries stay
LastN_KeepsOldest(s, n) == SubSeq(s, 1, Min(Len(s), n))

\* array.slice(-n)
LastN(s, n) == SubSeq(s, Max(1, Len(s) - n + 1), Len(s))

\* lines 105-116 before slice(-100): smoothedData when smoothness > 0, newData
\* itself otherwise
smoothedData(newData, r) == IF r > 0 THEN Smooth(newData, r) ELSE newData

\* lines 103-117: the updater passed to setPitchData
NextPitchData(prevData, pitch, r) ==
  LastN(smoothedData(Append(prevData, pitch), r), HistoryCapacity)

\* line 102 with >= in the place of >: an estimate at the floor passes
Accepted_AtFloor(pitch, cn, floor) ==
  /\ pitch # NullPitch
  /\ pitch # NaNPitch
  /\ (~cn \/ pitch >= floor)

\* line 102: the condition under which an estimate is used
Accepted(pitch, cn, floor) ==
  /\ pitch # NullPitch
  /\ pitch # NaNPitch
  /\ (~cn \/ pitch > floor)

\* ---- the state as one record ---------------------------------------------
Cur ==
  [isListening |-> isListening, pitchData |-> pitchData,
   currentNote |-> currentNote, cancelNoise |-> cancelNoise,
   isCalibrating |-> isCalibrating, smoothness |-> smoothness,
   audioContextRef |-> audioContextRef, rafIdRef |-> rafIdRef,
   noiseFloorRef |-> noiseFloorRef, noiseProfileRef |-> noiseProfileRef,
   pending |-> pending, rafQueue |-> rafQueue, frame |-> frame,
   streams |-> streams, contexts |-> contexts, sources |-> sources, lastTick |-> lastTick]

\* lastTick after a step that ran updatePitch with estimate pitch, and after
\* a step that ran no updatePitch
Ticked(pitch, did) == [pitch |-> pitch, did |-> did]
NoTick == [pitch |-> NullPitch, did |-> "none"]

Quiet(s) == [s EXCEPT !.lastTick = NoTick]

Becomes(s) ==
  /\ isListening' = s.isListening
  /\ pitchData' = s.pitchData
  /\ currentNote' = s.currentNote
  /\ cancelNoise' = s.cancelNoise
  /\ isCalibrating' = s.isCalibrating
  /\ smoothness' = s.smoothness
  /\ audioContextRef' = s.audioContextRef
  /\ rafIdRef' = s.rafIdRef
  /\ noiseFloorRef' = s.noiseFloorRef
  /\ noiseProfileRef' = s.noiseProfileRef
  /\ pending' = s.pending
  /\ rafQueue' = s.rafQueue
  /\ frame' = s.frame
  /\ streams' = s.streams
  /\ contexts' = s.contexts
  /\ sources' = s.sources
  /\ lastTick' = s.lastTick

\* the callbacks registered with requestAnimationFrame
\* seen is the maximum, bin by bin, of the frames the loop has read so far
CalibCallback(n, seen) ==
  [type |-> "calib", calibrationFrames |-> n, seen |-> seen]
PitchCallback(id, cn, sm) ==
  [type |-> "pitch", id |-> id, cancelNoise |-> cn, smoothness |-> sm]

CalibCallbacks(q) == {i \in 1..Len(q) : q[i].type = "calib"}
PitchCallbacks(q) == {i \in 1..Len(q) : q[i].type = "pitch"}

\* ---- calibration ---------------------------------------------------------
maxCalibrationFrames == calibrationTime * FramesPerSecond

\* the maximum of two spectrum frames, bin by bin
BinMax(a, b) == [i \in 1..NumBins |-> Max(a[i], b[i])]

\* lines 51-71 with <= in the place of < at line 65: one round too many
updateCalibration_OneMore(s, n, seen, frequencyData) ==
  LET profile ==
        IF n = 0 THEN frequencyData
        ELSE BinMax(s.noiseProfileRef, frequencyData)
      all == IF n = 0 THEN frequencyData ELSE BinMax(seen, frequencyData)
      t == [s EXCEPT !.noiseProfileRef = profile]
  IN  IF n + 1 <= maxCalibrationFrames
      THEN [t EXCEPT !.rafQueue = Append(@, CalibCallback(n + 1, all))]
      ELSE [t EXCEPT !.isCalibrating = FALSE,
                     !.noiseFloorRef = MaxOf(profile)]

\* lines 51-71: one round of updateCalibration, run with calibrationFrames = n
\* by a loop that has read frames of maximum seen
updateCalibration(s, n, seen, frequencyData) ==
  LET profile ==
        IF n = 0 THEN frequencyData
        ELSE BinMax(s.noiseProfileRef, frequencyData)
      all == IF n = 0 THEN frequencyData ELSE BinMax(seen, frequencyData)
      t == [s EXCEPT !.noiseProfileRef = profile]
  IN  IF n + 1 < maxCalibrationFrames
      THEN [t EXCEPT !.rafQueue = Append(@, CalibCallback(n + 1, all))]
      ELSE [t EXCEPT !.isCalibrating = FALSE,
                     !.noiseFloorRef = MaxOf(profile)]

\* lines 45-74
calibrateNoise(s, frequencyData) ==
  updateCalibration([s EXCEPT !.isCalibrating = TRUE,
                              !.noiseProfileRef = ZeroProfile],
                    0, ZeroProfile, frequencyData)

\* ---- the noise gate ------------------------------------------------------
\* values of one sample of getFloatTimeDomainData
Samples == {0, 1, 2}

\* detector.inputLength is the analyser's fftSize, twice frequencyBinCount
InputLength == 2 * NumBins
Inputs == [1..InputLength -> Samples]

\* lines 94-98: what updatePitch hands to the estimator for the frame input
NoiseGate(input, cn, profile) ==
  IF cn /\ profile # NullProfile
  THEN [i \in 1..Len(input) |->
          Max(0, input[i] - profile[((i - 1) % Len(profile)) + 1])]
  ELSE input

\* ---- the pitch tick ------------------------------------------------------
\* lines 91-122: updatePitch of the loop cb, the estimator returning pitch
updatePitch(s, cb, pitch) ==
  LET t == IF Accepted(pitch, cb.cancelNoise, s.noiseFloorRef)
           THEN [s EXCEPT !.pitchData =
                            NextPitchData(@, pitch, cb.smoothness),
                          !.currentNote = getNote(pitch),
                          !.lastTick =
                            Ticked(pitch,
                                   IF Len(s.pitchData) = HistoryCapacity
                                   THEN "evicted" ELSE "appended")]
           ELSE [s EXCEPT !.lastTick =
                            Ticked(pitch,
                                   IF pitch \in {NullPitch, NaNPitch}
                                   THEN "absent" ELSE "rejected")]
  IN  [t EXCEPT !.rafIdRef = cb.id, !.rafQueue = Append(@, cb)]

\* ---- start and stop ------------------------------------------------------
\* lines 78-125: startListening after getUserMedia has resolved; c is the
\* closure of the click
startListeningResolved(s, c, frequencyData, pitch) ==
  LET ctx == s.streams + 1
      s1 == [s EXCEPT !.streams = @ + 1,
                      !.audioContextRef = ctx,
                      !.contexts = @ \cup {ctx},
                      !.sources = @ \cup {ctx}]
      s2 == IF c.cancelNoise THEN calibrateNoise(s1, frequencyData) ELSE s1
      s3 == updatePitch(s2, PitchCallback(ctx, c.cancelNoise, c.smoothness),
                        pitch)
  IN  [s3 EXCEPT !.isListening = TRUE]

\* cancelAnimationFrame(id)
Cancel(q, id) == SelectSeq(q, LAMBDA cb : ~(cb.type = "pitch" /\ cb.id = id))

\* lines 131-144 without setCurrentNote('') of line 143
stopListening_KeepsNote(s) ==
  LET s1 == IF s.rafIdRef # NullId
            THEN [s EXCEPT !.rafQueue = Cancel(@, s.rafIdRef)]
            ELSE s
      s2 == IF s1.audioContextRef # NullContext
            THEN [s1 EXCEPT !.sources = @ \ {s1.audioContextRef},
                            !.contexts = @ \ {s1.audioContextRef}]
            ELSE s1
  IN  [s2 EXCEPT !.isListening = FALSE, !.pitchData = <<>>]

\* lines 131-144
stopListening(s) ==
  LET s1 == IF s.rafIdRef # NullId
            THEN [s EXCEPT !.rafQueue = Cancel(@, s.rafIdRef)]
            ELSE s
      s2 == IF s1.audioContextRef # NullContext
            THEN [s1 EXCEPT !.sources = @ \ {s1.audioContextRef},
                            !.contexts = @ \ {s1.audioContextRef}]
            ELSE s1
  IN  [s2 EXCEPT !.isListening = FALSE, !.pitchData = <<>>,
                 !.currentNote = ""]

\* ---- the operations ------------------------------------------------------
Init ==
  /\ isListening = FALSE
  /\ pitchData = <<>>
  /\ currentNote = ""
  /\ cancelNoise = FALSE
  /\ isCalibrating = FALSE
  /\ smoothness = 0
  /\ audioContextRef = NullContext
  /\ rafIdRef = NullId
  /\ noiseFloorRef = 0
  /\ noiseProfileRef = NullProfile
  /\ pending = <<>>
  /\ rafQueue = <<>>
  /\ frame = <<>>
  /\ streams = 0
  /\ contexts = {}
  /\ sources = {}
  /\ lastTick = NoTick

\* no animation frame is being run: handlers and continuations may run
BetweenFrames == frame = <<>>

Remove(q, i) == SubSeq(q, 1, i - 1) \o SubSeq(q, i + 1, Len(q))

CanCalibrate == Cardinality(CalibCallbacks(rafQueue)) < MaxCalibrations

\* the Start button (lines 188, 192): startListening up to its await
ClickStart ==
  /\ BetweenFrames
  /\ ~isListening
  /\ ~isCalibrating
  /\ Len(pending) < MaxPendingStarts
  /\ Becomes([Quiet(Cur) EXCEPT !.pending =
       Append(@, [cancelNoise |-> cancelNoise, smoothness |-> smoothness])])

\* getUserMedia resolves for the i-th waiting startListening
ResolveOf(i, frequencyData, pitch) ==
  /\ BetweenFrames
  /\ streams < MaxStreams
  /\ pending[i].cancelNoise => CanCalibrate
  /\ Becomes(startListeningResolved(
               [Cur EXCEPT !.pending = Remove(@, i)], pending[i],
               frequencyData, pitch))

GetUserMediaResolves ==
  \E i \in 1..Len(pending), frequencyData \in SpectrumFrames,
     pitch \in Estimates : ResolveOf(i, frequencyData, pitch)

\* getUserMedia rejects (no device, permission denied): the catch of line 126
GetUserMediaRejects ==
  \E i \in 1..Len(pending) :
    /\ BetweenFrames
    /\ Becomes([Quiet(Cur) EXCEPT !.pending = Remove(@, i)])

\* getUserMedia resolves and new AudioContext() of line 79 throws: the catch
\* of line 126 runs with the stream obtained
AudioContextThrows ==
  \E i \in 1..Len(pending) :
    /\ BetweenFrames
    /\ streams < MaxStreams
    /\ Becomes([Quiet(Cur) EXCEPT !.pending = Remove(@, i), !.streams = @ + 1])

\* the Stop button (lines 188, 192)
ClickStop ==
  /\ BetweenFrames
  /\ isListening
  /\ ~isCalibrating
  /\ Becomes(stopListening(Quiet(Cur)))

\* lines 146-151: the checkbox is toggled
handleCancelNoiseChange ==
  \E frequencyData \in SpectrumFrames :
    LET checked == ~cancelNoise
        s == [Quiet(Cur) EXCEPT !.cancelNoise = checked]
    IN  /\ BetweenFrames
        /\ (checked /\ isListening) => CanCalibrate
        /\ Becomes(IF checked /\ isListening
                   THEN calibrateNoise(s, frequencyData) ELSE s)

\* lines 153-157, the button enabled as in line 224
handleCalibrate ==
  \E frequencyData \in SpectrumFrames :
    /\ BetweenFrames
    /\ isListening
    /\ ~isCalibrating
    /\ CanCalibrate
    /\ Becomes(calibrateNoise(Quiet(Cur), frequencyData))

\* line 239: the smoothness slider is moved
setSmoothness ==
  \E v \in 0..MaxSmoothness :
    /\ BetweenFrames
    /\ v # smoothness
    /\ Becomes([Quiet(Cur) EXCEPT !.smoothness = v])

\* the browser starts an animation frame: the callbacks registered so far
\* are the ones it runs
AnimationFrame ==
  /\ BetweenFrames
  /\ rafQueue # <<>>
  /\ Becomes([Quiet(Cur) EXCEPT !.frame = rafQueue, !.rafQueue = <<>>])

\* the frame runs a callback registered by line 66
CalibrationTick ==
  \E frequencyData \in SpectrumFrames :
    /\ frame # <<>>
    /\ Head(frame).type = "calib"
    /\ Becomes(updateCalibration([Quiet(Cur) EXCEPT !.frame = Tail(@)],
                                 Head(frame).calibrationFrames,
                                 Head(frame).seen, frequencyData))

\* the frame runs a callback registered by line 121, findPitch returning
\* pitch
PitchTickOf(pitch) ==
  /\ frame # <<>>
  /\ Head(frame).type = "pitch"
  /\ Becomes(updatePitch([Cur EXCEPT !.frame = Tail(@)], Head(frame), pitch))

PitchTick == \E pitch \in Estimates : PitchTickOf(pitch)

Next ==
  \/ ClickStart
  \/ GetUserMediaResolves
  \/ GetUserMediaRejects
  \/ AudioContextThrows
  \/ ClickStop
  \/ handleCancelNoiseChange
  \/ handleCalibrate
  \/ setSmoothness
  \/ AnimationFrame
  \/ CalibrationTick
  \/ PitchTick

Spec == Init /\ [][Next]_vars

\* ---- state descriptions used by the properties ---------------------------
Scheduled == rafQueue \o frame

\* updateCalibration callbacks waiting to run
CalibrationLoops == Cardinality(CalibCallbacks(Scheduled))

\* a calibration has run to its end and none is running
Calibrated ==
  /\ noiseProfileRef # NullProfile
  /\ ~isCalibrating
  /\ CalibrationLoops = 0

\* the step ran updatePitch; every run registers its callback last
Ticks == lastTick'.did # "none"
TickClosure == rafQueue'[Len(rafQueue')]

\* the step ran updatePitch from an animation frame
FrameTicks == Ticks /\ frame # <<>>

\* the step is the continuation of a startListening whose getUserMedia
\* resolved (it runs updatePitch), or the catch of one that failed
StartResolves == Len(pending') < Len(pending) /\ Ticks
StartFails == Len(pending') < Len(pending) /\ ~Ticks

\* the step ran calibrateNoise: it is the only place a profile is replaced
\* while the number of scheduled calibration callbacks grows
StartsCalibration == CalibrationLoops' > CalibrationLoops

\* ---- C1 ------------------------------------------------------------------
\* C1: with noise cancellation enabled in the configuration and a calibration
\* completed with floor F = noiseFloorRef, a frame tick whose estimate p has
\* p <= F changes neither pitchData nor currentNote, and one with p > F
\* appends to pitchData and sets currentNote.
C1_GateFollowsConfiguration ==
  [][(FrameTicks /\ cancelNoise /\ Calibrated
        /\ lastTick'.pitch \in PitchValues) =>
       IF lastTick'.pitch <= noiseFloorRef
       THEN pitchData' = pitchData /\ currentNote' = currentNote
       ELSE /\ lastTick'.did \in {"appended", "evicted"}
            /\ currentNote' = getNote(lastTick'.pitch)]_vars

\* ---- C2 ------------------------------------------------------------------
\* the mean of s[a..b]
MeanOf(s, a, b) == Sum(SubSeq(s, a, b)) \div (b - a + 1)

\* pitchData' is pitchData with the sample p added under radius r and the
\* oldest position dropped
Fifo(p, r) ==
  LET all == Append(pitchData, p)
  IN  /\ Len(pitchData') = HistoryCapacity
      /\ r = 0 => pitchData' = Append(Tail(pitchData), p)
      /\ \A i \in 1..HistoryCapacity :
           pitchData'[i] = MeanOf(all, Max(1, i + 1 - r),
                                  Min(HistoryCapacity + 1, i + 1 + r))

\* C2: the length of pitchData never exceeds the capacity, and a sample
\* accepted while pitchData is full drops the oldest position, keeps the
\* others in order and puts the entry of the new sample last.
C2_BoundedFifo ==
  [][/\ Len(pitchData') <= HistoryCapacity
     /\ (Ticks /\ Len(pitchData) = HistoryCapacity
           /\ lastTick'.did \in {"appended", "evicted"}) =>
          Fifo(lastTick'.pitch, TickClosure.smoothness)]_vars

\* a tick has evicted an entry, and the entries left differ
C2_Witness ==
  /\ lastTick.did = "evicted"
  /\ Len(pitchData) = HistoryCapacity
  /\ pitchData[1] # pitchData[HistoryCapacity]

\* ---- C3 ------------------------------------------------------------------
\* C3: every tick gates and smooths with the cancelNoise and smoothness of
\* the configuration at that moment, whatever they were when start was
\* clicked.
C3_NextFrameUsesConfiguration ==
  [][Ticks =>
       IF Accepted(lastTick'.pitch, cancelNoise, noiseFloorRef')
       THEN /\ pitchData' = NextPitchData(pitchData, lastTick'.pitch,
                                          smoothness)
            /\ currentNote' = getNote(lastTick'.pitch)
       ELSE /\ pitchData' = pitchData
            /\ currentNote' = currentNote]_vars

\* ---- C4 ------------------------------------------------------------------
\* C4: a start made from Idle begins with an empty history and no note, and
\* when its gate is on, the floor its first tick reads is not one learned
\* before (it is the initial 0).
C4_StartIsFresh ==
  [][(StartResolves /\ ~isListening) =>
       /\ pitchData = <<>>
       /\ currentNote = ""
       /\ TickClosure.cancelNoise => noiseFloorRef' = 0]_vars

\* ---- C5 ------------------------------------------------------------------
\* C5: while not listening, pitchData is empty, there is no current note, and
\* no media stream, audio context or connected source is held.
C5_IdleHoldsNothing ==
  ~isListening =>
    /\ pitchData = <<>>
    /\ currentNote = ""
    /\ streams = 0
    /\ contexts = {}
    /\ sources = {}

\* ---- C6 ------------------------------------------------------------------
\* C6: while Idle with no start under way, no updatePitch and no
\* updateCalibration callback is scheduled or run, and no step writes the
\* profile, the floor, the history or the note.
C6_NothingRunsWhileIdle ==
  [][(~isListening /\ pending = <<>>) =>
       /\ Scheduled = <<>>
       /\ ~Ticks
       /\ UNCHANGED <<noiseProfileRef, noiseFloorRef, pitchData,
                      currentNote>>]_vars

\* ---- C7 ------------------------------------------------------------------
\* the step is the run of an event handler (no animation frame, no
\* continuation of a start)
HandlerRuns == BetweenFrames /\ frame' = <<>> /\ Len(pending') >= Len(pending)

\* C7: a handler run while the session is not listening, or while a
\* calibration is running, starts no calibration and changes no calibration
\* state; and at most one calibration loop is scheduled at any time.
C7_OneCalibrationAtATime ==
  [][/\ CalibrationLoops' <= 1
     /\ (HandlerRuns /\ (~isListening \/ isCalibrating)) =>
          /\ ~StartsCalibration
          /\ UNCHANGED <<isCalibrating, noiseProfileRef, noiseFloorRef>>
    ]_vars

\* ---- C8 ------------------------------------------------------------------
\* C8: a tick whose estimate is absent (null, NaN) or is rejected by the gate
\* of its loop leaves pitchData and currentNote as they were.
C8_RejectedLeavesHistory ==
  [][(Ticks /\ (\/ lastTick'.pitch \in {NullPitch, NaNPitch}
                \/ TickClosure.cancelNoise
                     /\ lastTick'.pitch <= noiseFloorRef')) =>
       UNCHANGED <<pitchData, currentNote>>]_vars

\* a tick has rejected an estimate and the history is not empty
C8_Witness ==
  /\ lastTick.did = "rejected"
  /\ pitchData # <<>>
  /\ currentNote # ""

\* ---- C9 ------------------------------------------------------------------
\* C9: a step taken while isCalibrating is false, and that does not begin a
\* calibration, changes neither the profile nor the floor.
C9_ProfileWrittenOnlyWhileCalibrating ==
  [][(~isCalibrating /\ ~isCalibrating') =>
       UNCHANGED <<noiseProfileRef, noiseFloorRef>>]_vars

\* ---- C10 -----------------------------------------------------------------
\* C10: a start that fails leaves the session as it was: no stream, context
\* or callback it acquired survives.
C10_FailedStartLeavesNothing ==
  [][StartFails =>
       UNCHANGED <<isListening, pitchData, currentNote, cancelNoise,
                   isCalibrating, smoothness, audioContextRef, rafIdRef,
                   noiseFloorRef, noiseProfileRef, rafQueue, frame, streams,
                   contexts, sources>>]_vars

\* ---- C11 -----------------------------------------------------------------
\* the step runs a scheduled updateCalibration callback
CalibrationCallbackRuns == frame # <<>> /\ Head(frame).type = "calib"

\* the step is the last round of a calibration loop
CalibrationEnds ==
  /\ CalibrationCallbackRuns
  /\ Head(frame).calibrationFrames + 1 = maxCalibrationFrames

C12_ProfileIsMaximumOfFrames ==
  [][CalibrationEnds =>
       \E frequencyData \in SpectrumFrames :
         noiseProfileRef' = BinMax(Head(frame).seen, frequencyData)]_vars

\* ---- C13 -------------------------------------------------------------------
\* C13: a pitch tick that runs while a calibration is in progress hands the
\* frame it read to the estimator unchanged: the profile being learned is not
\* subtracted from it
C13_CalibratingFramesPassUnchanged ==
  [][(Ticks /\ isCalibrating') =>
       \A input \in Inputs :
         NoiseGate(input, TickClosure.cancelNoise, noiseProfileRef') = input]_vars

\* ---- C14 -------------------------------------------------------------------
\* C14: every entry of the history is above zero, and the note shown is never
\* the note of an estimate of 0 Hz, the estimator's "no pitch"
C14_HistoryIsPositive ==
  /\ \A i \in 1..Len(pitchData) : pitchData[i] > 0
  /\ currentNote # getNote(0)

\* ---- getNote on its own ----------------------------------------------------
\* a frequency is drawn; lastTick holds it until getNote has been applied
NoteInit ==
  /\ isListening = FALSE
  /\ pitchData = <<>>
  /\ currentNote = ""
  /\ cancelNoise = FALSE
  /\ isCalibrating = FALSE
  /\ smoothness = 0
  /\ audioContextRef = NullContext
  /\ rafIdRef = NullId
  /\ noiseFloorRef = 0
  /\ noiseProfileRef = NullProfile
  /\ pending = <<>>
  /\ rafQueue = <<>>
  /\ frame = <<>>
  /\ streams = 0
  /\ contexts = {}
  /\ sources = {}
  /\ \E frequency \in Frequencies : lastTick = Ticked(frequency, "none")

\* line 118: setCurrentNote(getNote(pitch)) for the frequency drawn
NoteApply ==
  /\ lastTick.did = "none"
  /\ Becomes([Cur EXCEPT !.currentNote = getNote(lastTick.pitch),
                         !.lastTick = Ticked(lastTick.pitch, "appended")])

NoteNext == NoteApply

NoteSpec == NoteInit /\ [][NoteNext]_vars

\* getNote has been applied to the frequency drawn
NoteShown == lastTick.did = "appended"

\* the octaves a note name can carry
Octaves == -10..10

\* ---- C15 -------------------------------------------------------------------
\* C15: for every frequency above zero, the very low ones included, the note
\* returned is one of the twelve names of NOTES followed by an integer octave
C15_NoteIsOneOfTwelve ==
  NoteShown =>
    \E i \in 1..Len(NOTES), octave \in Octaves :
      currentNote = NOTES[i] \o ToString(octave)

\* ---- C16 -------------------------------------------------------------------
\* the number of semitones from 440 Hz to frequency, rounded to the nearest
SemitonesFrom440(frequency) == (12 * Log2Of440[frequency] + 500000) \div 1000000

\* the index in NOTES of the pitch class k semitones above A
ClassFromA(k) == ((9 + k) % 12) + 1

\* C16: 440 Hz is A4, 880 Hz is A5, 220 Hz is A3, and a frequency k semitones
\* from 440 Hz carries the name k semitones from A (checked from 28 Hz up,
\* where the rounded note number of getNote is not negative)
C16_NamesCountFromA ==
  (NoteShown /\ lastTick.pitch >= 28) =>
    /\ lastTick.pitch = 440 => currentNote = "A4"
    /\ lastTick.pitch = 880 => currentNote = "A5"
    /\ lastTick.pitch = 220 => currentNote = "A3"
    /\ \E octave \in Octaves :
         currentNote =
           NOTES[ClassFromA(SemitonesFrom440(lastTick.pitch))]
             \o ToString(octave)

\* ---- the smoothing on its own ----------------------------------------------
\* the lists newData can be: one to HistoryCapacity + 1 estimates
NewDatas ==
  UNION {[1..n -> PitchValues] : n \in 1..(HistoryCapacity + 1)}

\* a list and a radius are drawn; pitchData holds the list
SmoothInit ==
  /\ isListening = FALSE
  /\ pitchData \in NewDatas
  /\ currentNote = ""
  /\ cancelNoise = FALSE
  /\ isCalibrating = FALSE
  /\ smoothness \in 0..MaxSmoothness
  /\ audioContextRef = NullContext
  /\ rafIdRef = NullId
  /\ noiseFloorRef = 0
  /\ noiseProfileRef = NullProfile
  /\ pending = <<>>
  /\ rafQueue = <<>>
  /\ frame = <<>>
  /\ streams = 0
  /\ contexts = {}
  /\ sources = {}
  /\ lastTick = NoTick

\* lines 105-116: the list drawn is smoothed under the radius drawn
SmoothApply ==
  /\ lastTick.did = "none"
  /\ Becomes([Cur EXCEPT !.pitchData = smoothedData(@, smoothness),
                         !.lastTick = Ticked(NullPitch, "appended")])

SmoothNext == SmoothApply

SmoothSpec == SmoothInit /\ [][SmoothNext]_vars

\* ---- C17 -------------------------------------------------------------------
\* out[i] is the mean of xs[a..b], rounded down to the unit of the model
IsMeanOf(out, xs, a, b) ==
  LET total == Sum(SubSeq(xs, a, b))
      n == b - a + 1
  IN  n * out <= total /\ total < n * (out + 1)

\* C17: the smoothed list is as long as the list given, its position i is the
\* mean of the positions i - r to i + r of the list given, cut at both ends of
\* the list, and under radius 0 the list comes back as it is
C17_SmoothIsWindowMean ==
  [][Ticks =>
       /\ Len(pitchData') = Len(pitchData)
       /\ \A i \in 1..Len(pitchData) :
            IsMeanOf(pitchData'[i], pitchData,
                     Max(1, i - smoothness), Min(Len(pitchData), i + smoothness))
       /\ smoothness = 0 => pitchData' = pitchData]_vars

\* a list of three or more has been smoothed under a radius above 0, and its
\* ends differ
C17_Witness ==
  /\ lastTick = Ticked(NullPitch, "appended")
  /\ smoothness > 0
  /\ Len(pitchData) > 2
  /\ pitchData[1] # pitchData[Len(pitchData)]

\* ---- C18 -------------------------------------------------------------------
\* at most one pitch loop exists, started or about to be
OneLoop == Cardinality(PitchCallbacks(Scheduled)) + Len(pending) <= 1

\* C18: the history is the raw samples smoothed once, so the entry of a sample
\* depends only on the samples within the radius of it: when the only loop
\* accepts a sample, the entries of the samples more than the radius before it
\* stay as they are (moving down one position when the oldest is dropped)
C18_OldEntriesNotSmoothedAgain ==
  [][(Ticks /\ OneLoop /\ lastTick'.did \in {"appended", "evicted"}) =>
       LET r == TickClosure.smoothness
           n == Len(pitchData) + 1
           drop == n - Len(pitchData')
       IN  \A j \in (drop + 1)..(n - r - 1) :
             pitchData'[j - drop] = pitchData[j]]_vars

\* ---- C19 -------------------------------------------------------------------
\* the pitch loops that have a tick scheduled
PitchLoops == Cardinality(PitchCallbacks(Scheduled))

\* C19: at no time is more than one pitch loop scheduled, and a click on Stop
\* leaves none scheduled
C19_OnePitchLoop ==
  [][/\ PitchLoops' <= 1
     /\ (HandlerRuns /\ isListening /\ ~isListening') => PitchLoops' = 0]_vars

\* ---- C20 -------------------------------------------------------------------
\* C20: the note shown is empty exactly when the history is empty
C20_NoteIffHistory == currentNote = "" <=> pitchData = <<>>

\* Stop has cleared the history and the note, and a tick after it has put one
\* sample and its note back
C20_Witness ==
  /\ ~isListening
  /\ lastTick.did = "appended"
  /\ Len(pitchData) = 1
  /\ currentNote = getNote(lastTick.pitch)

====
